---------------------------- MODULE Spec2Model ----------------------------
(***************************************************************************)
(* A model of src/data_parser_qmt.py: DATParser.parse_date,                *)
(* DATParser._detect_data_type, DATParser.parse_dat_file and               *)
(* DATParser.parse_directory.                                              *)
(*                                                                         *)
(* Representation                                                          *)
(*  - a decoded record (struct.unpack('<8I', ...)) is a tuple of 8         *)
(*    naturals; Python's index k is index k+1 here;                        *)
(*  - a file's bytes are its full 32-byte records plus the number of       *)
(*    bytes ("tail") left after the last full record;                      *)
(*  - a string is a sequence of one-character strings;                     *)
(*  - a price rounded to 2 digits is an integer number of hundredths; the  *)
(*    rounded amount is the exact value num/den;                           *)
(*  - pct_change is a record: null (NaN of the first row), num (the exact  *)
(*    rational num/den), inf or nan (division by a zero close);            *)
(*  - a DataFrame is the sequence of its rows; the empty DataFrame is the  *)
(*    empty sequence.                                                      *)
(***************************************************************************)
EXTENDS Integers, Sequences, FiniteSets, TLC

VARIABLES
    tz,                \* the system's local time zone (datetime.fromtimestamp)
    directory_path,    \* parse_directory's argument, a string
    dat_files,         \* the files the glob finds, in its order
    pc,                \* the position in parse_directory / parse_dat_file
    fidx,              \* the for loop's position in dat_files (1-based)
    data,              \* parse_dat_file: the bytes read
    is_intraday,       \* parse_dat_file: the detected kind
    i,                 \* parse_dat_file: the scan loop's record index
    records,           \* parse_dat_file: the accepted rows, in file order
    df,                \* parse_dat_file: the DataFrame built / returned
    all_data,          \* parse_directory: the non-empty DataFrames
    successful_count,  \* parse_directory: how many files gave rows
    combined_df,       \* parse_directory: the returned DataFrame
    csv,               \* the rows written to all_stocks_data.csv
    parsed             \* history: what parse_dat_file returned for each file

vars == <<tz, directory_path, dat_files, pc, fidx, data, is_intraday, i,
          records, df, all_data, successful_count, combined_df, csv, parsed>>

---------------------------------------------------------------------------
(* Program constants *)

record_size == 32

TsLow == 1500000000

TsHigh == 2000000000

PriceLimitIntraday == 10000000

PriceLimitDaily == 1000000

AmountScaleThreshold == 1000000

(* Bound of the model: the most full records a file of Init holds. *)
MaxRecords == 4

---------------------------------------------------------------------------
(* Strings *)

Digit(d) == <<"0", "1", "2", "3", "4", "5", "6", "7", "8", "9">>[d + 1]

\* Python's str(n) of a natural number
RECURSIVE DecStr(_)
DecStr(n) == IF n < 10 THEN <<Digit(n)>> ELSE Append(DecStr(n \div 10), Digit(n % 10))

\* strftime's %m, %d, %H, %M, %S: two digits, zero padded
Pad2(n) == <<Digit((n \div 10) % 10), Digit(n % 10)>>

\* strftime's %Y for a year of four digits
Pad4(n) == <<Digit((n \div 1000) % 10), Digit((n \div 100) % 10),
             Digit((n \div 10) % 10), Digit(n % 10)>>

\* The code point order of the characters a timestamp string is made of.
CharOrd(c) ==
    CHOOSE k \in 1..13 :
        <<" ", "-", "0", "1", "2", "3", "4", "5", "6", "7", "8", "9", ":">>[k] = c

\* Python's s < t on strings: lexicographic by code point, a proper prefix first.
RECURSIVE StrLess(_, _)
StrLess(s, t) ==
    IF t = << >> THEN FALSE
    ELSE IF s = << >> THEN TRUE
    ELSE IF Head(s) # Head(t) THEN CharOrd(Head(s)) < CharOrd(Head(t))
    ELSE StrLess(Tail(s), Tail(t))

StrLeq(s, t) == s = t \/ StrLess(s, t)

UpperCase == <<"A", "B", "C", "D", "E", "F", "G", "H", "I", "J", "K", "L", "M",
               "N", "O", "P", "Q", "R", "S", "T", "U", "V", "W", "X", "Y", "Z">>

LowerCase == <<"a", "b", "c", "d", "e", "f", "g", "h", "i", "j", "k", "l", "m",
               "n", "o", "p", "q", "r", "s", "t", "u", "v", "w", "x", "y", "z">>

LowerChar(c) ==
    IF \E k \in 1..26 : UpperCase[k] = c
    THEN LowerCase[CHOOSE k \in 1..26 : UpperCase[k] = c]
    ELSE c

\* str.lower()
Lower(s) == [k \in 1..Len(s) |-> LowerChar(s[k])]

\* Python's `sub in s`
Contains(s, sub) ==
    \E k \in 1..(Len(s) - Len(sub) + 1) : SubSeq(s, k, k + Len(sub) - 1) = sub

\* The positions of character c in s
Positions(s, c) == {k \in 1..Len(s) : s[k] = c}

SetMax(S) == CHOOSE x \in S : \A y \in S : y <= x

\* Path(p).name: what follows the last "/"
BaseName(p) ==
    IF Positions(p, "/") = {} THEN p
    ELSE SubSeq(p, SetMax(Positions(p, "/")) + 1, Len(p))

\* Path(p).stem: the name without its last suffix (a leading dot is no suffix)
Stem(p) ==
    LET name == BaseName(p)
        dots == Positions(name, ".") \ {1}
    IN  IF dots = {} THEN name ELSE SubSeq(name, 1, SetMax(dots) - 1)

---------------------------------------------------------------------------
(* Local time *)

\* A zone is its UTC offset before its first listed transition and its
\* transitions <<instant, offset from then on>>, in ascending order.
AsiaShanghai == [base |-> 28800, transitions |-> << >>]

\* America/New_York from 2017 to 2033 (the tz database's transitions).
AmericaNewYork ==
    [base |-> -18000,
     transitions |-> <<
        <<1489302000, -14400>>, <<1509861600, -18000>>, <<1520751600, -14400>>,
        <<1541311200, -18000>>, <<1552201200, -14400>>, <<1572760800, -18000>>,
        <<1583650800, -14400>>, <<1604210400, -18000>>, <<1615705200, -14400>>,
        <<1636264800, -18000>>, <<1647154800, -14400>>, <<1667714400, -18000>>,
        <<1678604400, -14400>>, <<1699164000, -18000>>, <<1710054000, -14400>>,
        <<1730613600, -18000>>, <<1741503600, -14400>>, <<1762063200, -18000>>,
        <<1772953200, -14400>>, <<1793512800, -18000>>, <<1805007600, -14400>>,
        <<1825567200, -18000>>, <<1836457200, -14400>>, <<1857016800, -18000>>,
        <<1867906800, -14400>>, <<1888466400, -18000>>, <<1899356400, -14400>>,
        <<1919916000, -18000>>, <<1930806000, -14400>>, <<1951365600, -18000>>,
        <<1962860400, -14400>>, <<1983420000, -18000>>, <<1994310000, -14400>>
     >>]

\* The zone's UTC offset at instant t: that of the last transition at or before t.
UtcOffset(zone, t) ==
    LET past == {k \in 1..Len(zone.transitions) : zone.transitions[k][1] <= t}
    IN  IF past = {} THEN zone.base ELSE zone.transitions[SetMax(past)][2]

\* The civil date of a day number counted from 1970-01-01 (proleptic Gregorian).
CivilFromDays(days) ==
    LET z   == days + 719468
        era == z \div 146097
        doe == z - era * 146097
        yoe == (doe - doe \div 1460 + doe \div 36524 - doe \div 146096) \div 365
        doy == doe - (365 * yoe + yoe \div 4 - yoe \div 100)
        mp  == (5 * doy + 2) \div 153
        d   == doy - (153 * mp + 2) \div 5 + 1
        m   == IF mp < 10 THEN mp + 3 ELSE mp - 9
        y   == yoe + era * 400 + (IF m <= 2 THEN 1 ELSE 0)
    IN  [year |-> y, month |-> m, day |-> d]

\* datetime.fromtimestamp(t): the local wall clock at instant t
FromTimestamp(zone, t) ==
    LET local == t + UtcOffset(zone, t)
        date  == CivilFromDays(local \div 86400)
        sod   == local % 86400
    IN  [year |-> date.year, month |-> date.month, day |-> date.day,
         hour |-> sod \div 3600, minute |-> (sod % 3600) \div 60, second |-> sod % 60]

\* strftime('%Y-%m-%d')
FormatDate(dt) == Pad4(dt.year) \o <<"-">> \o Pad2(dt.month) \o <<"-">> \o Pad2(dt.day)

\* strftime('%Y-%m-%d %H:%M:%S')
FormatDateTime(dt) ==
    FormatDate(dt) \o <<" ">> \o Pad2(dt.hour) \o <<":">> \o Pad2(dt.minute)
                   \o <<":">> \o Pad2(dt.second)

\* DATParser.parse_date
parse_date(zone, date_int, include_time) ==
    IF date_int > TsLow /\ date_int < TsHigh
    THEN LET target_date == FromTimestamp(zone, date_int)
         IN  IF include_time THEN FormatDateTime(target_date)
                             ELSE FormatDate(target_date)
    ELSE DecStr(date_int)

\* DATParser._detect_data_type
detect_data_type(file_path) ==
    LET path_str == Lower(file_path)
    IN  Contains(path_str, <<"5", "m">>) \/ Contains(path_str, <<"m", "i", "n">>)

---------------------------------------------------------------------------
(* One record pair *)

\* The raw prices ending in 5 thousandths whose quotient by 1000.0, as a
\* binary double, lies above the decimal tie, so that round(x, 2) goes up
\* (5 / 1000.0 rounds to 0.01); the other ties of the model's prices lie
\* below it (15 / 1000.0 rounds to 0.01).
TiesAboveHalf == {5}

\* round(raw / 1000.0, 2), in hundredths
RoundPrice(raw) ==
    LET q == raw \div 10
        r == raw % 10
    IN  IF r < 5 THEN q
        ELSE IF r > 5 THEN q + 1
        ELSE IF raw \in TiesAboveHalf THEN q + 1 ELSE q

\* price_limit (line 99)
price_limit(intraday) == IF intraday THEN PriceLimitIntraday ELSE PriceLimitDaily

\* The timestamp gate (line 95)
TimestampGate(price_unpacked) ==
    price_unpacked[3] > TsLow /\ price_unpacked[3] < TsHigh

\* Mutant: two plausible prices are enough.
PlausibilityGateTwoOfFour(price_unpacked, intraday) ==
    Cardinality({k \in 4..7 : price_unpacked[k] > 0
                              /\ price_unpacked[k] < price_limit(intraday)}) >= 2

\* The 3-of-4 plausibility gate (line 100) on price_unpacked[3:7]
PlausibilityGate(price_unpacked, intraday) ==
    Cardinality({k \in 4..7 : price_unpacked[k] > 0
                              /\ price_unpacked[k] < price_limit(intraday)}) >= 3

\* The data quality check (lines 119-121): TRUE when the pair is skipped.
\* x / 1000.0 is 0 exactly when x is, and is never negative for an unsigned x.
QualityRejectA(price_unpacked) ==
    \/ \A k \in 4..7 : price_unpacked[k] = 0
    \/ \E k \in 4..7 : price_unpacked[k] < 0

Max2(a, b) == IF a >= b THEN a ELSE b

Min2(a, b) == IF a <= b THEN a ELSE b

\* The price logic check (lines 124-127): TRUE when the pair is skipped.
\* Division by 1000.0 keeps the order of the unsigned 32-bit values.
QualityRejectB(price_unpacked) ==
    LET open_price  == price_unpacked[4]
        high_price  == price_unpacked[5]
        low_price   == price_unpacked[6]
        close_price == price_unpacked[7]
    IN  \/ high_price < low_price
        \/ high_price < Max2(open_price, close_price)
        \/ low_price > Min2(open_price, close_price)

\* volume (lines 109, 114)
VolumeOf(volume_unpacked, intraday) ==
    IF intraday THEN volume_unpacked[1] ELSE volume_unpacked[1] * 100

\* Mutant: an amount of exactly the threshold is divided too.
AmountOfInclusive(volume_unpacked, intraday) ==
    LET raw_amount == volume_unpacked[3]
    IN  IF intraday
        THEN IF raw_amount >= AmountScaleThreshold
             THEN [num |-> raw_amount, den |-> 100]
             ELSE [num |-> raw_amount, den |-> 1]
        ELSE [num |-> raw_amount, den |-> 1]

\* round(amount, 2) (lines 110-111, 115-116, 138) as the exact value
\* num / den: raw_amount / 100.0 has two decimals and an integer has none,
\* so rounding to 2 digits changes neither.
AmountOf(volume_unpacked, intraday) ==
    LET raw_amount == volume_unpacked[3]
    IN  IF intraday
        THEN IF raw_amount > AmountScaleThreshold
             THEN [num |-> raw_amount, den |-> 100]
             ELSE [num |-> raw_amount, den |-> 1]
        ELSE [num |-> raw_amount, den |-> 1]

\* The dict appended at lines 131-139; date_int and pair (the pair's number
\* in the file, from 0) are history fields, not columns.
MakeRow(zone, intraday, price_unpacked, volume_unpacked, pair) ==
    LET time   == parse_date(zone, price_unpacked[3], intraday)
        common == [open     |-> RoundPrice(price_unpacked[4]),
                   high     |-> RoundPrice(price_unpacked[5]),
                   low      |-> RoundPrice(price_unpacked[6]),
                   close    |-> RoundPrice(price_unpacked[7]),
                   volume   |-> VolumeOf(volume_unpacked, intraday),
                   amount   |-> AmountOf(volume_unpacked, intraday),
                   date_int |-> price_unpacked[3],
                   pair     |-> pair]
    IN  IF intraday
        THEN [x \in DOMAIN common \cup {"datetime"} |->
                 IF x = "datetime" THEN time ELSE common[x]]
        ELSE [x \in DOMAIN common \cup {"date"} |->
                 IF x = "date" THEN time ELSE common[x]]

\* Whether the loop body (lines 89-139) appends a row for the pair.
Accepts(price_unpacked, intraday) ==
    /\ TimestampGate(price_unpacked)
    /\ PlausibilityGate(price_unpacked, intraday)
    /\ ~QualityRejectA(price_unpacked)
    /\ ~QualityRejectB(price_unpacked)

\* The rows the loop body adds for one pair: one, or none.
PairRows(zone, intraday, price_unpacked, volume_unpacked, pair) ==
    IF Accepts(price_unpacked, intraday)
    THEN <<MakeRow(zone, intraday, price_unpacked, volume_unpacked, pair)>>
    ELSE << >>

---------------------------------------------------------------------------
(* DataFrames *)

EmptyFrame == << >>

TimeOf(row) == IF "datetime" \in DOMAIN row THEN row.datetime ELSE row.date

WithColumn(row, name, value) ==
    [x \in DOMAIN row \cup {name} |-> IF x = name THEN value ELSE row[x]]

\* df['code'] = stock_code (line 152)
WithCode(frame, stock_code) ==
    [k \in 1..Len(frame) |-> WithColumn(frame[k], "code", stock_code)]

\* Insert row into the sorted frame after every row that is not greater.
RECURSIVE InsertSorted(_, _)
InsertSorted(frame, row) ==
    IF frame = << >> THEN <<row>>
    ELSE IF StrLess(TimeOf(row), TimeOf(Head(frame))) THEN <<row>> \o frame
    ELSE <<Head(frame)>> \o InsertSorted(Tail(frame), row)

\* df.sort_values(time_field).reset_index(drop=True) (line 156): ascending by
\* the time string; rows with equal strings keep their order, as numpy's
\* argsort does for the up to 16 rows a file of the model gives.
RECURSIVE SortValues(_)
SortValues(frame) ==
    IF frame = << >> THEN << >>
    ELSE InsertSorted(SortValues(SubSeq(frame, 1, Len(frame) - 1)), frame[Len(frame)])

\* One element of df['close'].pct_change() * 100 (line 159): close / prev - 1
\* times 100, as the exact rational num / den; a float division by zero gives
\* inf (a positive close) or nan (0.0 / 0.0) and raises nothing.
PctOf(close, prev) ==
    IF prev = 0
    THEN IF close = 0 THEN [kind |-> "nan"] ELSE [kind |-> "inf"]
    ELSE [kind |-> "num", num |-> 100 * (close - prev), den |-> prev]

\* df['pct_change'] = df['close'].pct_change() * 100
WithPctChange(frame) ==
    [k \in 1..Len(frame) |->
        WithColumn(frame[k], "pct_change",
                   IF k = 1 THEN [kind |-> "null"]
                   ELSE PctOf(frame[k].close, frame[k - 1].close))]

\* Mutant: pct_change is computed before the sort.
BuildSeriesPctFirst(rows, stock_code) ==
    SortValues(WithPctChange(WithCode(rows, stock_code)))

\* Lines 148-164: the DataFrame of the accepted rows with its code column,
\* sorted by time, and then its pct_change column.
BuildSeries(rows, stock_code) ==
    WithPctChange(SortValues(WithCode(rows, stock_code)))

\* pd.concat(all_data, ignore_index=True)
RECURSIVE Concat(_)
Concat(frames) ==
    IF frames = << >> THEN << >> ELSE Head(frames) \o Concat(Tail(frames))

---------------------------------------------------------------------------
(* parse_dat_file and parse_directory *)

NoData == [recs |-> << >>, tail |-> 0]

\* str(dat_file): the directory's path, a separator and the file's name
PathOf(file) == directory_path \o <<"/">> \o file.name

\* len(data)
DataLen(d) == record_size * Len(d.recs) + d.tail

\* Mutant: a file with bytes after its last full record counts no records.
RecordCountStrict(d) ==
    IF DataLen(d) % record_size # 0 THEN 0 ELSE DataLen(d) \div record_size

\* record_count (line 68)
RecordCount(d) == DataLen(d) \div record_size

\* len(data[pos:pos + record_size]) (lines 80, 84)
SliceLen(d, pos) ==
    IF pos >= DataLen(d) THEN 0
    ELSE IF pos + record_size <= DataLen(d) THEN record_size
    ELSE DataLen(d) - pos

\* struct.unpack('<8I', data[pos:pos + record_size]) of a full slice
Unpack(d, pos) == d.recs[pos \div record_size + 1]

\* Whether the scan loop's range(0, record_count - 1, 2) has an element at i.
InRange(d, idx) == idx < RecordCount(d) - 1

\* Mutant: the pairs overlap.
NextIndexByOne(idx) == idx + 1

\* The step of range(0, record_count - 1, 2)
NextIndex(idx) == idx + 2

\* The conditions under which each step is taken: the position in the code
\* and the loops' tests (lines 193 and 77).
AtStart == pc = "start"

AtCall == pc = "loop" /\ fidx <= Len(dat_files)

AtFinish == pc = "loop" /\ fidx > Len(dat_files)

AtScanPair == pc = "scan" /\ InRange(data, i)

AtScanDone == pc \in {"scan", "broke"} /\ (pc = "scan" => ~InRange(data, i))

AtCollect == pc = "returned"

\* parse_directory up to its loop (lines 178-191)
Start ==
    /\ AtStart
    /\ IF dat_files = << >>
       THEN /\ pc' = "done"
            /\ combined_df' = EmptyFrame
       ELSE /\ pc' = "loop"
            /\ UNCHANGED combined_df
    /\ fidx' = 1
    /\ all_data' = << >>
    /\ successful_count' = 0
    /\ UNCHANGED <<tz, directory_path, dat_files, data, is_intraday, i, records,
                   df, csv, parsed>>

\* Mutant: parse_dat_file has no handler, and a file that cannot be read ends
\* the run.
CallParseNoHandler ==
    /\ AtCall
    /\ LET file == dat_files[fidx]
           read == [recs |-> file.recs, tail |-> file.tail]
       IN  IF ~file.readable
           THEN /\ pc' = "raised"
                /\ UNCHANGED <<data, is_intraday, i, records, df>>
           ELSE IF RecordCount(read) = 0
           THEN /\ pc' = "returned"
                /\ df' = EmptyFrame
                /\ data' = read
                /\ UNCHANGED <<is_intraday, i, records>>
           ELSE /\ pc' = "scan"
                /\ data' = read
                /\ is_intraday' = detect_data_type(PathOf(file))
                /\ records' = << >>
                /\ i' = 0
                /\ UNCHANGED df
    /\ UNCHANGED <<tz, directory_path, dat_files, fidx, all_data,
                   successful_count, combined_df, csv, parsed>>

\* The call of parse_dat_file (line 197) up to its scan loop (lines 64-76):
\* a file that cannot be opened or read raises inside the try, and the
\* handler of lines 166-168 returns the empty DataFrame.
CallParse ==
    /\ AtCall
    /\ LET file == dat_files[fidx]
           read == [recs |-> file.recs, tail |-> file.tail]
       IN  IF ~file.readable
           THEN /\ pc' = "returned"
                /\ df' = EmptyFrame
                /\ UNCHANGED <<data, is_intraday, i, records>>
           ELSE IF RecordCount(read) = 0
           THEN /\ pc' = "returned"
                /\ df' = EmptyFrame
                /\ data' = read
                /\ UNCHANGED <<is_intraday, i, records>>
           ELSE /\ pc' = "scan"
                /\ data' = read
                /\ is_intraday' = detect_data_type(PathOf(file))
                /\ records' = << >>
                /\ i' = 0
                /\ UNCHANGED df
    /\ UNCHANGED <<tz, directory_path, dat_files, fidx, all_data,
                   successful_count, combined_df, csv, parsed>>

\* Mutant: a rejected pair ends the scan.
ScanPairBreakOnReject ==
    /\ AtScanPair
    /\ LET rows == PairRows(tz, is_intraday, Unpack(data, i * record_size),
                            Unpack(data, (i + 1) * record_size), i \div 2)
       IN  /\ records' = records \o rows
           /\ i' = NextIndex(i)
           /\ pc' = IF rows = << >> THEN "broke" ELSE "scan"
    /\ UNCHANGED <<tz, directory_path, dat_files, fidx, data, is_intraday, df,
                   all_data, successful_count, combined_df, csv, parsed>>

\* One pass of the scan loop's body (lines 77-142)
ScanPair ==
    /\ AtScanPair
    /\ LET price_pos  == i * record_size
           volume_pos == (i + 1) * record_size
       IN  IF SliceLen(data, price_pos) < record_size
              \/ SliceLen(data, volume_pos) < record_size
           THEN /\ pc' = "broke"
                /\ UNCHANGED <<i, records>>
           ELSE /\ records' = records \o PairRows(tz, is_intraday,
                                                   Unpack(data, price_pos),
                                                   Unpack(data, volume_pos),
                                                   i \div 2)
                /\ i' = NextIndex(i)
                /\ pc' = "scan"
    /\ UNCHANGED <<tz, directory_path, dat_files, fidx, data, is_intraday, df,
                   all_data, successful_count, combined_df, csv, parsed>>

\* The end of the scan loop and the building of the series (lines 144-164)
ScanDone ==
    /\ AtScanDone
    /\ df' = IF records = << >>
             THEN EmptyFrame
             ELSE BuildSeries(records, Stem(PathOf(dat_files[fidx])))
    /\ pc' = "returned"
    /\ UNCHANGED <<tz, directory_path, dat_files, fidx, data, is_intraday, i,
                   records, all_data, successful_count, combined_df, csv, parsed>>

\* parse_directory's loop body after the call (lines 199-201)
Collect ==
    /\ AtCollect
    /\ parsed' = [parsed EXCEPT ![fidx] = [returned |-> TRUE, frame |-> df]]
    /\ IF df # EmptyFrame
       THEN /\ all_data' = Append(all_data, df)
            /\ successful_count' = successful_count + 1
       ELSE UNCHANGED <<all_data, successful_count>>
    /\ fidx' = fidx + 1
    /\ pc' = "loop"
    /\ UNCHANGED <<tz, directory_path, dat_files, data, is_intraday, i, records,
                   df, combined_df, csv>>

\* parse_directory after its loop (lines 203-218)
Finish ==
    /\ AtFinish
    /\ IF all_data # << >>
       THEN /\ combined_df' = Concat(all_data)
            /\ csv' = [written |-> TRUE, rows |-> Concat(all_data)]
       ELSE /\ combined_df' = EmptyFrame
            /\ UNCHANGED csv
    /\ pc' = "done"
    /\ UNCHANGED <<tz, directory_path, dat_files, fidx, data, is_intraday, i,
                   records, df, all_data, successful_count, parsed>>

Next ==
    \/ Start
    \/ CallParse
    \/ ScanPair
    \/ ScanDone
    \/ Collect
    \/ Finish

---------------------------------------------------------------------------
(* Inputs *)

NotParsed == [returned |-> FALSE, frame |-> << >>]

NoCsv == [written |-> FALSE, rows |-> << >>]

\* The state when parse_directory is entered with the given environment.
Entered(zone, dirpath, files) ==
    /\ tz = zone
    /\ directory_path = dirpath
    /\ dat_files = files
    /\ pc = "start"
    /\ fidx = 0
    /\ data = NoData
    /\ is_intraday = FALSE
    /\ i = 0
    /\ records = << >>
    /\ df = EmptyFrame
    /\ all_data = << >>
    /\ successful_count = 0
    /\ combined_df = EmptyFrame
    /\ csv = NoCsv
    /\ parsed = [k \in 1..Len(files) |-> NotParsed]

Zones == {AsiaShanghai, AmericaNewYork}

DailyDir == <<"s", "z", "d", "a", "y", "K">>

IntradayDir == <<"s", "h", "5", "m", "K">>

FileName(letter) == <<letter, ".", "D", "A", "T">>

PriceRecord(ts, o, h, l, c) == <<0, 0, ts, o, h, l, c, 0>>

VolumeRecord(v0, v2) == <<v0, 0, v2, 0, 0, 0, 0, 0>>

\* 2023-11-05 06:00:00 UTC, the instant at which New York sets its clocks
\* back from 02:00 to 01:00, and half an hour before it
TsB == AmericaNewYork.transitions[14][1]

TsA == TsB - 1800

\* Prices that round to 0.0
PriceA == PriceRecord(TsA, 4, 4, 4, 4)

PriceB == PriceRecord(TsB, 10000, 10500, 9900, 10200)

\* high < low
PriceCrossed == PriceRecord(TsA, 10000, 9000, 9900, 10200)

\* two of the four prices are 0
PriceImplausible == PriceRecord(TsB, 0, 0, 10, 10)

\* A companion record; as a price record its index 2 is no timestamp.
VolumeRec == VolumeRecord(500, 5000000)

RecordPool == {PriceA, PriceB, PriceCrossed, PriceImplausible, VolumeRec}

SeqsUpTo(S, n) == UNION {[1..k -> S] : k \in 0..n}

DatFile(letter, recs, tail) ==
    [name |-> FileName(letter), readable |-> TRUE, recs |-> recs, tail |-> tail]

\* A directory holds no file, or a file with a short final record and the
\* same file without it, or a file of an odd number of records and the file
\* cut to its pairs.
ScanDirectories ==
    {<< >>}
    \cup {<<DatFile("A", r, 5), DatFile("B", r, 0)>> :
             r \in SeqsUpTo(RecordPool, MaxRecords)}
    \cup {<<DatFile("A", r, 0), DatFile("B", SubSeq(r, 1, Len(r) - 1), 0)>> :
             r \in {q \in SeqsUpTo(RecordPool, MaxRecords) : Len(q) % 2 = 1}}

Init ==
    \E zone \in Zones, dirpath \in {DailyDir, IntradayDir}, files \in ScanDirectories :
        Entered(zone, dirpath, files)

Spec == Init /\ [][Next]_vars

\* One pair: the prices, the timestamp, and the companion record's values
\* each range over the values around the gates' and the scaling's limits.
PriceVals == {0, 1, 5, 15, 10000, 999999, 1000000, 9999999, 10000000}

TsVals == {0, TsLow, TsLow + 1, TsA, TsB, 1700000000, TsHigh - 1, TsHigh}

Index0Vals == {0, 500, 21474836}

Index2Vals == {0, 999999, 1000000, 1000001, 2000000, 5000000}

PathPool == {DailyDir, IntradayDir,
             <<"S", "H", "5", "M", "K">>,
             <<"M", "i", "n", "K">>,
             <<"d", "a", "y", "5">>,
             <<"a", "d", "m", "i", "n">>}

InitPair ==
    \/ \E dirpath \in {DailyDir, IntradayDir}, o \in PriceVals, h \in PriceVals,
          l \in PriceVals, c \in PriceVals :
          Entered(AsiaShanghai, dirpath,
                  <<DatFile("A", <<PriceRecord(1700000000, o, h, l, c), VolumeRec>>, 0)>>)
    \/ \E zone \in Zones, dirpath \in {DailyDir, IntradayDir}, ts \in TsVals :
          Entered(zone, dirpath,
                  <<DatFile("A", <<PriceRecord(ts, 10000, 10500, 9900, 10200),
                                   VolumeRec>>, 0)>>)
    \/ \E dirpath \in PathPool, v0 \in Index0Vals, v2 \in Index2Vals :
          Entered(AsiaShanghai, dirpath,
                  <<DatFile("A", <<PriceRecord(1700000000, 10000, 10500, 9900, 10200),
                                   VolumeRecord(v0, v2)>>, 0)>>)
    \/ \E dirpath \in PathPool : Entered(AsiaShanghai, dirpath, << >>)

SpecPair == InitPair /\ [][Next]_vars

\* A batch: up to MaxFiles different files of a directory, in any order.
MaxFiles == 3

BatchFiles ==
    {[name |-> FileName("U"), readable |-> FALSE, recs |-> <<PriceB, VolumeRec>>, tail |-> 0],
     DatFile("E", << >>, 0),
     DatFile("S", << >>, 5),
     DatFile("G", <<PriceA, VolumeRec, PriceB, VolumeRec>>, 0),
     DatFile("R", <<PriceCrossed, VolumeRec, VolumeRec, VolumeRec>>, 0),
     DatFile("M", <<PriceImplausible, VolumeRec, PriceB, VolumeRec, PriceB>>, 7)}

BatchDirectories ==
    {d \in SeqsUpTo(BatchFiles, MaxFiles) :
        \A a, b \in 1..Len(d) : a # b => d[a] # d[b]}

InitBatch ==
    \E zone \in Zones, dirpath \in {DailyDir, IntradayDir}, files \in BatchDirectories :
        Entered(zone, dirpath, files)

SpecBatch == InitBatch /\ [][Next]_vars

---------------------------------------------------------------------------
(* Properties *)

\* The files parse_dat_file has returned for
Returned == {k \in 1..Len(dat_files) : parsed[k].returned}

\* What parse_dat_file returned for the k-th file
Frame(k) == parsed[k].frame

WithoutCode(frame) ==
    [k \in 1..Len(frame) |-> [x \in DOMAIN frame[k] \ {"code"} |-> frame[k][x]]]

\* The directory holds a file and the file cut to its full record pairs.
IsOddAndCut ==
    /\ Len(dat_files) = 2
    /\ dat_files[1].tail = 0
    /\ Len(dat_files[1].recs) % 2 = 1
    /\ dat_files[2].recs = SubSeq(dat_files[1].recs, 1, Len(dat_files[1].recs) - 1)
    /\ dat_files[2].tail = 0

\* C3: records are consumed in non-overlapping pairs: a file of r full
\* records gives at most r \div 2 bars, and a file of 2n+1 full records gives
\* the output of its first 2n records.
C3_PairingDeterminism ==
    /\ \A k \in Returned : Len(Frame(k)) <= Len(dat_files[k].recs) \div 2
    /\ (pc = "done" /\ IsOddAndCut) =>
          WithoutCode(Frame(1)) = WithoutCode(Frame(2))

\* Three records, the trailing one a price record that a pair would accept,
\* after a pair that gave a bar.
C3_Witness ==
    /\ pc = "done"
    /\ IsOddAndCut
    /\ Len(dat_files[1].recs) = 3
    /\ dat_files[1].recs[3] = PriceB
    /\ dat_files[1].recs[2] = PriceB
    /\ Len(Frame(1)) = 1

\* The directory holds a file with a short final record and the file cut
\* before it.
IsTailedAndCut ==
    /\ Len(dat_files) = 2
    /\ dat_files[1].tail > 0
    /\ dat_files[1].tail < record_size
    /\ dat_files[2].recs = dat_files[1].recs
    /\ dat_files[2].tail = 0

\* C4: a file whose final record is shorter than 32 bytes gives the series
\* of the file cut before that record, with every bar of its earlier pairs.
C4_MalformedTail ==
    (pc = "done" /\ IsTailedAndCut) =>
        /\ WithoutCode(Frame(1)) = WithoutCode(Frame(2))
        /\ \A k \in 1..(Len(dat_files[1].recs) \div 2) :
              Accepts(dat_files[1].recs[2 * k - 1], detect_data_type(PathOf(dat_files[1])))
                 => \E j \in 1..Len(Frame(1)) : Frame(1)[j].pair = k - 1

C4_Witness ==
    /\ pc = "done"
    /\ IsTailedAndCut
    /\ Len(Frame(1)) = 2

\* C5: in a returned series the time strings never decrease from a bar to
\* the next, and a bar is never placed before a bar of an earlier raw
\* timestamp unless their time strings are equal.
C5_Chronological ==
    \A k \in Returned :
        \A a, b \in 1..Len(Frame(k)) :
            a < b =>
                /\ StrLeq(TimeOf(Frame(k)[a]), TimeOf(Frame(k)[b]))
                /\ Frame(k)[a].date_int > Frame(k)[b].date_int
                      => TimeOf(Frame(k)[a]) = TimeOf(Frame(k)[b])

\* What pct_change must be for a close and the close before it.
PctIsLaw(pct, close, prev) ==
    IF prev = 0
    THEN pct.kind \in {"inf", "nan"}
    ELSE /\ pct.kind = "num"
         /\ pct.den # 0
         /\ pct.num * prev = 100 * (close - prev) * pct.den

\* C6: in a returned series the rows are in sorted order, the first bar's
\* pct_change is null and every other bar's is (close / previous close - 1)
\* * 100 for the bar just before it in that order; a zero previous close
\* gives inf or nan and the series is still returned.
C6_PctChangeLaw ==
    \A k \in Returned :
        \A a \in 1..Len(Frame(k)) :
            IF a = 1
            THEN Frame(k)[a].pct_change.kind = "null"
            ELSE /\ StrLeq(TimeOf(Frame(k)[a - 1]), TimeOf(Frame(k)[a]))
                 /\ PctIsLaw(Frame(k)[a].pct_change, Frame(k)[a].close,
                             Frame(k)[a - 1].close)

\* The second pair of the file comes first in the series and closes at 0.0;
\* the first pair follows it.
C6_Witness ==
    /\ 1 \in Returned
    /\ tz = AsiaShanghai
    /\ Len(Frame(1)) = 2
    /\ Frame(1)[1].pair = 1
    /\ Frame(1)[1].close = 0
    /\ Frame(1)[2].pair = 0
    /\ Frame(1)[2].pct_change.kind = "inf"

\* The gates as the specification states them, on the decoded price record.
StatedAccept(price, intraday) ==
    LET ceiling == IF intraday THEN 10000000 ELSE 1000000
        o == price[4]
        h == price[5]
        l == price[6]
        c == price[7]
    IN  /\ 1500000000 < price[3] /\ price[3] < 2000000000
        /\ \E out \in 4..7 : \A k \in (4..7) \ {out} : 0 < price[k] /\ price[k] < ceiling
        /\ ~(o = 0 /\ h = 0 /\ l = 0 /\ c = 0)
        /\ ~(h < l) /\ ~(h < o) /\ ~(h < c) /\ ~(l > o) /\ ~(l > c)

\* The numbers of the pairs before record index idx that pass the gates
RECURSIVE StatedPairs(_, _, _)
StatedPairs(d, intraday, idx) ==
    IF idx <= 0 THEN << >>
    ELSE StatedPairs(d, intraday, idx - 2)
         \o (IF StatedAccept(d.recs[idx - 1], intraday) THEN <<(idx - 2) \div 2>> ELSE << >>)

\* C9: while a file is scanned, the accepted rows are those of the pairs
\* before the loop index that pass the gates, in file order, whatever came
\* before each, and the scan stops only at the end of the pairs.
C9_FilterMap ==
    /\ pc # "broke"
    /\ pc = "scan" =>
          /\ i % 2 = 0
          /\ i <= RecordCount(data)
          /\ [k \in 1..Len(records) |-> records[k].pair]
                = StatedPairs(data, detect_data_type(PathOf(dat_files[fidx])), i)

\* A pair that fails a gate was skipped and the pair after it was accepted.
C9_Witness ==
    /\ pc = "scan"
    /\ i = 4
    /\ data.recs[1] \in {PriceCrossed, PriceImplausible, VolumeRec}
    /\ Len(records) = 1
    /\ records[1].pair = 1

\* The decoded price record a returned row was made from
PriceRecordOf(k, row) == dat_files[k].recs[2 * row.pair + 1]

\* The decoded volume record a returned row was made from
VolumeRecordOf(k, row) == dat_files[k].recs[2 * row.pair + 2]

\* C1: every emitted bar has low <= min(open, close) <= max(open, close)
\* <= high on its rounded prices, no negative price, and not four zero prices.
C1_QualityGateSoundness ==
    \A k \in Returned :
        \A a \in 1..Len(Frame(k)) :
            LET row == Frame(k)[a]
            IN  /\ row.low <= Min2(row.open, row.close)
                /\ Max2(row.open, row.close) <= row.high
                /\ row.open >= 0 /\ row.high >= 0 /\ row.low >= 0 /\ row.close >= 0
                /\ ~(row.open = 0 /\ row.high = 0 /\ row.low = 0 /\ row.close = 0)

\* C2: every emitted bar has open, high, low and close above 0 after rounding.
C2_PricesPositive ==
    \A k \in Returned :
        \A a \in 1..Len(Frame(k)) :
            LET row == Frame(k)[a]
            IN  row.open > 0 /\ row.high > 0 /\ row.low > 0 /\ row.close > 0

\* C8: volume and amount follow the file's kind: Daily gives index 0 times
\* 100 and index 2 as it is; Intraday gives index 0 as it is and index 2
\* divided by 100 only when it exceeds 1,000,000.
C8_VolumeAmountScaling ==
    \A k \in Returned :
        \A a \in 1..Len(Frame(k)) :
            LET row    == Frame(k)[a]
                index0 == VolumeRecordOf(k, row)[1]
                index2 == VolumeRecordOf(k, row)[3]
            IN  IF detect_data_type(PathOf(dat_files[k]))
                THEN /\ row.volume = index0
                     /\ IF index2 > 1000000
                        THEN row.amount.num * 100 = index2 * row.amount.den
                        ELSE row.amount.num = index2 * row.amount.den
                ELSE /\ row.volume = index0 * 100
                     /\ row.amount.num = index2 * row.amount.den

\* Intraday, index 0 = 500 and index 2 = 2000000: volume 500, amount 20000.
C8_Witness ==
    /\ 1 \in Returned
    /\ directory_path = IntradayDir
    /\ Len(Frame(1)) = 1
    /\ VolumeRecordOf(1, Frame(1)[1]) = VolumeRecord(500, 2000000)
    /\ Frame(1)[1].volume = 500
    /\ Frame(1)[1].amount.num = 20000 * Frame(1)[1].amount.den

\* C10: in every emitted bar the raw open and close lie strictly between 0
\* and the kind's ceiling, the raw low is below the ceiling, the raw high is
\* above 0, and low = 0 and high >= ceiling never come together.
C10_OneOutOfRangePrice ==
    \A k \in Returned :
        \A a \in 1..Len(Frame(k)) :
            LET price   == PriceRecordOf(k, Frame(k)[a])
                ceiling == IF detect_data_type(PathOf(dat_files[k]))
                           THEN 10000000 ELSE 1000000
            IN  /\ 0 < price[4] /\ price[4] < ceiling
                /\ 0 < price[7] /\ price[7] < ceiling
                /\ price[6] < ceiling
                /\ price[5] > 0
                /\ ~(price[6] = 0 /\ price[5] >= ceiling)
                /\ Cardinality({x \in 4..7 : price[x] = 0 \/ price[x] >= ceiling}) <= 1

\* A bar is emitted whose raw high is at the ceiling.
C10_Witness ==
    /\ 1 \in Returned
    /\ directory_path = DailyDir
    /\ Len(Frame(1)) = 1
    /\ PriceRecordOf(1, Frame(1)[1])[5] = 1000000

\* What a finished batch holds.
BatchOutcome ==
    \A k \in 1..Len(dat_files) :
        /\ parsed[k].returned
        /\ ~dat_files[k].readable => Frame(k) = EmptyFrame
        /\ \A a \in 1..Len(Frame(k)) :
              \E b \in 1..Len(combined_df) : combined_df[b] = Frame(k)[a]

\* The most steps one file can still take, plus one
FileSpan == 4 + SetMax({RecordCount(dat_files[k]) : k \in 1..Len(dat_files)} \cup {0})

\* A bound on the steps the run can still take.
Remaining ==
    IF pc = "done" THEN 0
    ELSE IF pc = "start" THEN (Len(dat_files) + 1) * FileSpan + 2
    ELSE IF pc = "loop" THEN (Len(dat_files) + 1 - fidx) * FileSpan + 1
    ELSE IF pc = "scan" THEN (Len(dat_files) - fidx) * FileSpan + 4 + RecordCount(data) - i
    ELSE IF pc = "broke" THEN (Len(dat_files) - fidx) * FileSpan + 3
    ELSE IF pc = "returned" THEN (Len(dat_files) - fidx) * FileSpan + 2
    ELSE -1

\* Some step of the program can be taken: each step's other conjuncts only
\* assign the next state.
CanStep == AtStart \/ AtCall \/ AtFinish \/ AtScanPair \/ AtScanDone \/ AtCollect

\* C7: a batch always completes: until it is done a step can be taken, and
\* every step brings the end nearer; when it is done, every file was
\* attempted, a file that cannot be read gave an empty series, and the rows
\* of every file are in the combined result.
C7_BatchCompletes ==
    /\ [](pc = "done" \/ CanStep)
    /\ [][Remaining' < Remaining /\ Remaining' >= 0]_vars
    /\ [](pc = "done" => BatchOutcome)

\* A batch is done whose first file cannot be read, whose second has only
\* rejected pairs, and whose third gave its rows.
C7_Witness ==
    /\ pc = "done"
    /\ Len(dat_files) = 3
    /\ ~dat_files[1].readable
    /\ dat_files[2].name = FileName("R")
    /\ Frame(2) = EmptyFrame
    /\ Len(Frame(3)) = 2
    /\ Len(combined_df) = 2
    /\ successful_count = 1

=============================================================================
